---- MODULE Spec2Model ----
(***************************************************************************)
(* A model of WaterQualityClassifier (src/classifiers.py) and of the       *)
(* category aggregation helpers of src/utils.py.                           *)
(*                                                                         *)
(* Text.  A Python str is modelled as a sequence of one-character tokens.  *)
(* The module is ASCII only, so the non-ASCII characters of the source are *)
(* written as tokens:                                                      *)
(*     "FO" "FC"   full-width parentheses U+FF08 U+FF09                    *)
(*     "FS"        ideographic space U+3000        "NL"  line feed         *)
(*     "ZW"        zero-width space U+200B                                 *)
(*     "lei"       U+7C7B (the category suffix)    "lie" U+52A3            *)
(*     "he" "ge"   U+5408 U+683C (the synonym "qualified")                 *)
(*     "R1".."R5"  the Roman numeral characters U+2160..U+2164             *)
(*     "FN"        full-width colon U+FF1A                                 *)
(*     "SM" "SN"   subscript m and n, U+2098 U+2099                        *)
(*     the characters of the metric names, by their pinyin: "rong" "jie"   *)
(*     "yang" (dissolved oxygen), "gao" "meng" "suan" (permanganate),      *)
(*     "hua" "xue" "xu" "yang" "liang" (chemical oxygen demand), "an"      *)
(*     "dan" (ammonia nitrogen), "zong" "lin" (total phosphorus), "zong"   *)
(*     "dan" (total nitrogen), "sheng" "hua" "xu" "yang" "liang" (BOD),    *)
(*     "xia" "shang" "xian" (lower/upper bound)                            *)
(* None is the one-element sequence NoneStr, whose token is no character.  *)
(* The water types "huku" and "heliu" stand for the source's two literals  *)
(* (lake/reservoir and river); they are only ever compared for equality.   *)
(*                                                                         *)
(* Numbers.  A reading is a record [kind, n]: kind "num" is a value that   *)
(* float() parses, n being the value in units of 10^-6; kind "nan" is      *)
(* float("nan"); kind "text" is a value float() raises on.  Every          *)
(* threshold of the source has at most three decimals, so the comparisons  *)
(* on n are the comparisons float makes on readings of up to six decimals. *)
(***************************************************************************)
EXTENDS Integers, Sequences, FiniteSets, TLC

VARIABLES water_type, lake_station_set, call

vars == <<water_type, lake_station_set, call>>

-----------------------------------------------------------------------------
(* Text helpers: Python's str operations on token sequences.               *)

NoneStr == <<"<None>">>

EmptyStr == <<>>

\* Python truthiness of an Optional[str]: None and "" are falsy.
Truthy(s) == s # NoneStr /\ s # EmptyStr

\* str.isspace / the regex class \s, over the modelled characters.
IsSpace(c) == c \in {" ", "NL", "FS"}

\* The ASCII digits that occur in the modelled texts.
Digits == {"0", "1", "2", "3", "4", "5"}

\* str.strip()
RECURSIVE LStrip(_)
LStrip(s) == IF s # <<>> /\ IsSpace(Head(s)) THEN LStrip(Tail(s)) ELSE s

RECURSIVE RStrip(_)
RStrip(s) ==
    IF s # <<>> /\ IsSpace(s[Len(s)]) THEN RStrip(SubSeq(s, 1, Len(s) - 1)) ELSE s

Strip(s) == RStrip(LStrip(s))

\* str.lower(), character by character: the ASCII capitals have a lower
\* case, every other modelled character is its own.
UpperLetters ==
    <<"A", "B", "C", "D", "E", "F", "G", "H", "I", "J", "K", "L", "M",
      "N", "O", "P", "Q", "R", "S", "T", "U", "V", "W", "X", "Y", "Z">>

LowerLetters ==
    <<"a", "b", "c", "d", "e", "f", "g", "h", "i", "j", "k", "l", "m",
      "n", "o", "p", "q", "r", "s", "t", "u", "v", "w", "x", "y", "z">>

LowerChar(c) ==
    IF \E i \in 1..26 : UpperLetters[i] = c
    THEN LowerLetters[CHOOSE i \in 1..26 : UpperLetters[i] = c]
    ELSE c

Lower(s) == [i \in 1..Len(s) |-> LowerChar(s[i])]

\* Python's `s in n` on two strings: s is a (contiguous) substring of n.
IsSubstr(s, n) ==
    \E i \in 0..(Len(n) - Len(s)) : SubSeq(n, i + 1, i + Len(s)) = s

\* re.sub of a run of whitespace (the class \s, with or without U+3000 named
\* beside it) by " ": every maximal run of whitespace becomes one ASCII space.
RECURSIVE CollapseSpace(_)
CollapseSpace(s) ==
    IF s = <<>> THEN <<>>
    ELSE IF IsSpace(Head(s))
         THEN <<" ">> \o CollapseSpace(LStrip(s))
         ELSE <<Head(s)>> \o CollapseSpace(Tail(s))

-----------------------------------------------------------------------------
(* Station registry: _norm_station and the set management API.             *)

\* The index of the character that ends a match of the parenthetical pattern
\* (full-width pair, or half-width pair, lazily) starting at s[1], 0 when
\* neither alternative matches there: the first
\* closing parenthesis of the same width, reached without crossing a line
\* feed ("." matches no line feed).
CloseIndex(s) ==
    LET close == IF s[1] = "FO" THEN "FC" ELSE ")"
        hits == {j \in 2..Len(s) :
                    /\ s[j] = close
                    /\ \A k \in 2..(j - 1) : s[k] # "NL" /\ s[k] # close}
    IN  IF s[1] \in {"FO", "("} /\ hits # {}
        THEN CHOOSE j \in hits : TRUE
        ELSE 0

\* re.sub of the parenthetical pattern by "": leftmost non-overlapping
\* matches are removed.
RECURSIVE RemoveParens(_)
RemoveParens(s) ==
    IF s = <<>> THEN <<>>
    ELSE LET j == CloseIndex(s)
         IN  IF j > 0
             THEN RemoveParens(SubSeq(s, j + 1, Len(s)))
             ELSE <<Head(s)>> \o RemoveParens(Tail(s))

\* The prefix class: whitespace, "-", "_" and the ASCII digits.
IsPrefixChar(c) == IsSpace(c) \/ c \in {"-", "_"} \/ c \in Digits

\* re.sub of a leading run of the prefix class by "".
RECURSIVE StripPrefix(_)
StripPrefix(s) ==
    IF s # <<>> /\ IsPrefixChar(Head(s)) THEN StripPrefix(Tail(s)) ELSE s

norm_station(s) ==
    IF s = NoneStr THEN EmptyStr
    ELSE LET s1 == Strip(s)
         IN  IF s1 = EmptyStr THEN EmptyStr
             ELSE Lower(Strip(CollapseSpace(StripPrefix(RemoveParens(s1)))))

\* set_lake_stations: the new registry.  iterable = FALSE is an argument
\* that cannot be iterated: the comprehension raises and the set is cleared.
set_lake_stations(names, iterable) ==
    IF iterable
    THEN {norm_station(n) : n \in {m \in names : m # NoneStr}}
    ELSE {}

\* add_lake_station storing the name as given.
add_lake_station_raw(sset, name) == sset \cup {name}

add_lake_station(sset, name) == sset \cup {norm_station(name)}

remove_lake_station(sset, name) == sset \ {norm_station(name)}

\* is_lake_station whose fuzzy test looks for a registered name inside the
\* station name only.
is_lake_station_one_way(sset, station_name, fuzzy) ==
    IF ~Truthy(station_name) THEN FALSE
    ELSE LET n == norm_station(station_name)
         IN  IF sset = {} THEN FALSE
             ELSE IF n \in sset THEN TRUE
             ELSE IF ~fuzzy THEN FALSE
             ELSE \E s \in sset : s # EmptyStr /\ IsSubstr(s, n)

\* is_lake_station without the test of an empty station name.
is_lake_station_unguarded(sset, station_name, fuzzy) ==
    LET n == norm_station(station_name)
    IN  IF sset = {} THEN FALSE
        ELSE IF n \in sset THEN TRUE
        ELSE IF ~fuzzy THEN FALSE
        ELSE \E s \in sset :
                /\ s # EmptyStr
                /\ (IsSubstr(s, n) \/ IsSubstr(n, s))

is_lake_station(sset, station_name, fuzzy) ==
    IF ~Truthy(station_name) THEN FALSE
    ELSE LET n == norm_station(station_name)
         IN  IF sset = {} THEN FALSE
             ELSE IF n \in sset THEN TRUE
             ELSE IF ~fuzzy THEN FALSE
             ELSE \E s \in sset :
                     /\ s # EmptyStr
                     /\ (IsSubstr(s, n) \/ IsSubstr(n, s))

-----------------------------------------------------------------------------
(* Readings and float().                                                   *)

Num(n) == [kind |-> "num", n |-> n]

NaN == [kind |-> "nan", n |-> 0]

Unparseable == [kind |-> "text", n |-> 0]

\* float(value) raised: the classifier's except branch returns "".
Raises(v) == v.kind = "text"

\* n <= b and n >= b on floats: every comparison with NaN is false.
Le(v, b) == v.kind = "num" /\ v.n <= b

Ge(v, b) == v.kind = "num" /\ v.n >= b

Lt(v, b) == v.kind = "num" /\ v.n < b

-----------------------------------------------------------------------------
(* Category strings.                                                       *)

CatI == <<"I", "lei">>

CatII == <<"I", "I", "lei">>

CatIII == <<"I", "I", "I", "lei">>

CatIV == <<"I", "V", "lei">>

CatV == <<"V", "lei">>

CatWorse == <<"lie", "V", "lei">>

\* The five-character string overall_category returns for an empty list
\* ("no valid data": U+65E0 U+6709 U+6548 U+6570 U+636E).
NoData == <<"wu", "you", "xiao", "shu", "ju">>

-----------------------------------------------------------------------------
(* The per-metric classifiers (thresholds in units of 10^-6).              *)

\* classify_pH with the upper end of the range excluded.
classify_pH_open(v) ==
    IF Raises(v) THEN EmptyStr
    ELSE IF Ge(v, 6000000) /\ Lt(v, 9000000) THEN CatI ELSE CatWorse

classify_pH(v) ==
    IF Raises(v) THEN EmptyStr
    ELSE IF Ge(v, 6000000) /\ Le(v, 9000000) THEN CatI ELSE CatWorse

classify_dissolved_oxygen(v) ==
    IF Raises(v) THEN EmptyStr
    ELSE IF Ge(v, 7500000) THEN CatI
    ELSE IF Ge(v, 6000000) THEN CatII
    ELSE IF Ge(v, 5000000) THEN CatIII
    ELSE IF Ge(v, 3000000) THEN CatIV
    ELSE IF Ge(v, 2000000) THEN CatV
    ELSE CatWorse

classify_permanganate_index(v) ==
    IF Raises(v) THEN EmptyStr
    ELSE IF Le(v, 2000000) THEN CatI
    ELSE IF Le(v, 4000000) THEN CatII
    ELSE IF Le(v, 6000000) THEN CatIII
    ELSE IF Le(v, 10000000) THEN CatIV
    ELSE IF Le(v, 15000000) THEN CatV
    ELSE CatWorse

\* classify_codcr as an ungapped ladder.
classify_codcr_ungapped(v) ==
    IF Raises(v) THEN EmptyStr
    ELSE IF Lt(v, 0) THEN EmptyStr
    ELSE IF Le(v, 15000000) THEN CatI
    ELSE IF Le(v, 20000000) THEN CatII
    ELSE IF Le(v, 30000000) THEN CatIII
    ELSE IF Le(v, 40000000) THEN CatIV
    ELSE CatWorse

classify_codcr(v) ==
    IF Raises(v) THEN EmptyStr
    ELSE IF Lt(v, 0) THEN EmptyStr
    ELSE IF Le(v, 15000000) THEN CatI
    ELSE IF Le(v, 20000000) THEN CatIII
    ELSE IF Le(v, 30000000) THEN CatIV
    ELSE IF Le(v, 40000000) THEN CatV
    ELSE CatWorse

\* classify_ammonia_nitrogen with the first bound exclusive.
classify_ammonia_nitrogen_strict(v) ==
    IF Raises(v) THEN EmptyStr
    ELSE IF Lt(v, 150000) THEN CatI
    ELSE IF Le(v, 500000) THEN CatII
    ELSE IF Le(v, 1000000) THEN CatIII
    ELSE IF Le(v, 1500000) THEN CatIV
    ELSE IF Le(v, 2000000) THEN CatV
    ELSE CatWorse

classify_ammonia_nitrogen(v) ==
    IF Raises(v) THEN EmptyStr
    ELSE IF Le(v, 150000) THEN CatI
    ELSE IF Le(v, 500000) THEN CatII
    ELSE IF Le(v, 1000000) THEN CatIII
    ELSE IF Le(v, 1500000) THEN CatIV
    ELSE IF Le(v, 2000000) THEN CatV
    ELSE CatWorse

classify_total_phosphorus(v) ==
    IF Raises(v) THEN EmptyStr
    ELSE IF Le(v, 20000) THEN CatI
    ELSE IF Le(v, 100000) THEN CatII
    ELSE IF Le(v, 200000) THEN CatIII
    ELSE IF Le(v, 300000) THEN CatIV
    ELSE IF Le(v, 400000) THEN CatV
    ELSE CatWorse

classify_total_phosphorus_lake(v) ==
    IF Raises(v) THEN EmptyStr
    ELSE IF Le(v, 15000) THEN CatI
    ELSE IF Le(v, 25000) THEN CatII
    ELSE IF Le(v, 50000) THEN CatIII
    ELSE IF Le(v, 100000) THEN CatIV
    ELSE IF Le(v, 200000) THEN CatV
    ELSE CatWorse

\* classify_total_nitrogen without the except branch around float().
classify_total_nitrogen_unchecked(v) ==
    IF Le(v, 200000) THEN CatI
    ELSE IF Le(v, 500000) THEN CatII
    ELSE IF Le(v, 1000000) THEN CatIII
    ELSE IF Le(v, 1500000) THEN CatIV
    ELSE IF Le(v, 2000000) THEN CatV
    ELSE CatWorse

classify_total_nitrogen(v) ==
    IF Raises(v) THEN EmptyStr
    ELSE IF Le(v, 200000) THEN CatI
    ELSE IF Le(v, 500000) THEN CatII
    ELSE IF Le(v, 1000000) THEN CatIII
    ELSE IF Le(v, 1500000) THEN CatIV
    ELSE IF Le(v, 2000000) THEN CatV
    ELSE CatWorse

classify_biochemical_oxygen_demand(v) ==
    IF Raises(v) THEN EmptyStr
    ELSE IF Le(v, 3000000) THEN CatI
    ELSE IF Le(v, 3000000) THEN CatII
    ELSE IF Le(v, 4000000) THEN CatIII
    ELSE IF Le(v, 6000000) THEN CatIV
    ELSE IF Le(v, 10000000) THEN CatV
    ELSE CatWorse

\* Water types: the literals of the source, None, and "".
WtLake == "huku"

WtRiver == "heliu"

WtNone == "<None>"

WtTruthy(wt) == wt # WtNone /\ wt # ""

\* resolve_water_type with registry membership consulted before the
\* explicit type.
resolve_water_type_station_first(wtype, sset, station_name, explicit_water_type) ==
    IF Truthy(station_name) /\ is_lake_station(sset, station_name, TRUE) THEN WtLake
    ELSE IF WtTruthy(explicit_water_type) THEN explicit_water_type
    ELSE IF WtTruthy(wtype) THEN wtype ELSE WtRiver

\* classify_total_phosphorus_by_type: the resolved water type ...
resolve_water_type(wtype, sset, station_name, explicit_water_type) ==
    IF WtTruthy(explicit_water_type) THEN explicit_water_type
    ELSE IF Truthy(station_name) /\ is_lake_station(sset, station_name, TRUE)
         THEN WtLake
         ELSE IF WtTruthy(wtype) THEN wtype ELSE WtRiver

\* ... and the ladder it selects.
classify_total_phosphorus_by_type(wtype, sset, v, station_name, explicit_water_type) ==
    IF resolve_water_type(wtype, sset, station_name, explicit_water_type) = WtLake
    THEN classify_total_phosphorus_lake(v)
    ELSE classify_total_phosphorus(v)

-----------------------------------------------------------------------------
(* Category tables and the aggregators.                                    *)

Qualified == <<"he", "ge">>

\* CATEGORY_ORDER.get(c, 0): 0 stands for a missing key.
CATEGORY_ORDER(c) ==
    CASE c = Qualified -> 1
      [] c = CatI -> 1
      [] c = CatII -> 2
      [] c = CatIII -> 3
      [] c = CatIV -> 4
      [] c = CatV -> 5
      [] c = CatWorse -> 6
      [] OTHER -> 0

\* ORDER_TO_CATEGORY.get with the "no data" string as the default.
ORDER_TO_CATEGORY_nodata(o) ==
    CASE o = 1 -> CatI
      [] o = 2 -> CatII
      [] o = 3 -> CatIII
      [] o = 4 -> CatIV
      [] o = 5 -> CatV
      [] o = 6 -> CatWorse
      [] OTHER -> NoData

\* ORDER_TO_CATEGORY.get(o, "")
ORDER_TO_CATEGORY(o) ==
    CASE o = 1 -> CatI
      [] o = 2 -> CatII
      [] o = 3 -> CatIII
      [] o = 4 -> CatIV
      [] o = 5 -> CatV
      [] o = 6 -> CatWorse
      [] OTHER -> EmptyStr

\* The keys of NORMALIZE_CATEGORY ...
InNormalizeCategory(s) ==
    s \in {Qualified, Qualified \o <<"lei">>, CatI, CatII, CatIII, CatIV, CatV, CatWorse}

\* ... and its values.
NORMALIZE_CATEGORY(s) ==
    IF s \in {Qualified, Qualified \o <<"lei">>} THEN CatI ELSE s

\* unicodedata.normalize("NFKC", c) of one character.
NfkcChar(c) ==
    CASE c = "R1" -> <<"I">>
      [] c = "R2" -> <<"I", "I">>
      [] c = "R3" -> <<"I", "I", "I">>
      [] c = "R4" -> <<"I", "V">>
      [] c = "R5" -> <<"V">>
      [] c = "FS" -> <<" ">>
      [] c = "FO" -> <<"(">>
      [] c = "FC" -> <<")">>
      [] OTHER -> <<c>>

RECURSIVE Nfkc(_)
Nfkc(s) == IF s = <<>> THEN <<>> ELSE NfkcChar(Head(s)) \o Nfkc(Tail(s))

\* Removal of the zero-width characters.
RemoveZeroWidth(s) == SelectSeq(s, LAMBDA c : c # "ZW")

sanitize_label(s) ==
    IF s = NoneStr THEN EmptyStr
    ELSE Strip(CollapseSpace(RemoveZeroWidth(Nfkc(s))))

\* The roman_map loop: each Roman numeral character becomes ASCII letters.
RomanChar(c) ==
    CASE c = "R1" -> <<"I">>
      [] c = "R2" -> <<"I", "I">>
      [] c = "R3" -> <<"I", "I", "I">>
      [] c = "R4" -> <<"I", "V">>
      [] c = "R5" -> <<"V">>
      [] OTHER -> <<c>>

RECURSIVE ReplaceRoman(_)
ReplaceRoman(s) ==
    IF s = <<>> THEN <<>> ELSE RomanChar(Head(s)) \o ReplaceRoman(Tail(s))

\* digit2roman.get(s, s)
Digit2Roman(s) ==
    CASE s = <<"1">> -> <<"I">>
      [] s = <<"2">> -> <<"I", "I">>
      [] s = <<"3">> -> <<"I", "I", "I">>
      [] s = <<"4">> -> <<"I", "V">>
      [] s = <<"5">> -> <<"V">>
      [] OTHER -> s

RomanNumerals == {<<"I">>, <<"I", "I">>, <<"I", "I", "I">>, <<"I", "V">>, <<"V">>}

StripLei(s) ==
    IF s # <<>> /\ s[Len(s)] = "lei" THEN SubSeq(s, 1, Len(s) - 1) ELSE s

QualifiedWords ==
    {Qualified,
     <<"q", "u", "a", "l", "i", "f", "i", "e", "d">>,
     <<"p", "a", "s", "s">>}

normalize_cat(cat) ==
    IF ~Truthy(cat) THEN EmptyStr
    ELSE LET s == Strip(cat)
             s2 == sanitize_label(s)
             core == Digit2Roman(ReplaceRoman(StripLei(s2)))
         IN  IF InNormalizeCategory(s) THEN NORMALIZE_CATEGORY(s)
             ELSE IF InNormalizeCategory(s2) THEN NORMALIZE_CATEGORY(s2)
             ELSE IF core # <<>> /\ core[1] = "lie" THEN CatWorse
             ELSE IF core \in RomanNumerals THEN core \o <<"lei">>
             ELSE IF Lower(core) \in QualifiedWords THEN NORMALIZE_CATEGORY(Qualified)
             ELSE s

\* utils.normalize_category without the removal of the trailing suffix.
normalize_category_keep_suffix(raw) ==
    IF raw = NoneStr THEN EmptyStr
    ELSE IF Strip(raw) = <<>> THEN EmptyStr
    ELSE LET s == ReplaceRoman(SelectSeq(Strip(raw), LAMBDA c : ~IsSpace(c)))
             d == Digit2Roman(s)
         IN  IF s # <<>> /\ s[1] = "lie" THEN CatWorse
             ELSE IF d \in RomanNumerals THEN d \o <<"lei">>
             ELSE EmptyStr

\* utils.normalize_category
normalize_category(raw) ==
    IF raw = NoneStr THEN EmptyStr
    ELSE IF Strip(raw) = <<>> THEN EmptyStr
    ELSE LET s == StripLei(ReplaceRoman(SelectSeq(Strip(raw), LAMBDA c : ~IsSpace(c))))
             d == Digit2Roman(s)
         IN  IF s # <<>> /\ s[1] = "lie" THEN CatWorse
             ELSE IF d \in RomanNumerals THEN d \o <<"lei">>
             ELSE EmptyStr

\* The order compute_overall_from_categories gives one entry.
entry_order(c) ==
    LET byNorm == CATEGORY_ORDER(normalize_cat(c))
    IN  IF byNorm # 0 THEN byNorm ELSE CATEGORY_ORDER(c)

\* max that keeps its first argument.
MaxFirst(a, b) == a

Max(a, b) == IF a >= b THEN a ELSE b

\* max(orders) over the orders of a non-empty list, folded from 0 as
\* overall_category folds it.
RECURSIVE MaxOrder(_)
MaxOrder(orders) ==
    IF orders = <<>> THEN 0 ELSE Max(Head(orders), MaxOrder(Tail(orders)))

\* utils.compute_overall_from_categories
compute_overall_from_categories(categories) ==
    IF categories = <<>> THEN NoData
    ELSE ORDER_TO_CATEGORY(
            MaxOrder([i \in 1..Len(categories) |-> entry_order(categories[i])]))

\* WaterQualityClassifier.overall_category
overall_category(categories) ==
    IF categories = <<>> THEN NoData
    ELSE ORDER_TO_CATEGORY(
            MaxOrder([i \in 1..Len(categories) |-> CATEGORY_ORDER(categories[i])]))

-----------------------------------------------------------------------------
(* Metric identification: _normalize_metric_name and recognized_metric_id. *)

\* str(x): None prints as the four letters "None".
Str(x) == IF x = NoneStr THEN <<"N", "o", "n", "e">> ELSE x

\* The characters the regex class \w does not match, among the modelled ones.
NonWordChars ==
    {" ", "NL", "FS", "ZW", "(", ")", "FO", "FC", "FN", "-", ":", "/", ".", ","}

IsWordChar(c) == c \notin NonWordChars

\* \b between s[k] and s[k+1] (k = 0 and k = Len(s) are the two ends).
Boundary(s, k) ==
    LET left  == k >= 1 /\ IsWordChar(s[k])
        right == k < Len(s) /\ IsWordChar(s[k + 1])
    IN  left # right

\* re.search(r"\bw\b", s) for a literal w.
SearchWord(w, s) ==
    \E i \in 0..(Len(s) - Len(w)) :
        /\ SubSeq(s, i + 1, i + Len(w)) = w
        /\ Boundary(s, i)
        /\ Boundary(s, i + Len(w))

\* The replace calls of _normalize_metric_name, for one character.
HalfWidthChar(c) ==
    CASE c = "FO" -> "("
      [] c = "FC" -> ")"
      [] c = "FN" -> ":"
      [] c = "SM" -> "m"
      [] c = "SN" -> "n"
      [] OTHER -> c

normalize_metric_name(name) ==
    LET s == Strip(Str(name))
        t == [i \in 1..Len(s) |-> HalfWidthChar(s[i])]
    IN  Lower(SelectSeq(t, LAMBDA c : ~IsSpace(c)))

\* re.search(r"cod(\(|-|_)?mn", low)
SearchCodMn(low) ==
    \E i \in 0..(Len(low) - 5) :
        /\ SubSeq(low, i + 1, i + 3) = <<"c", "o", "d">>
        /\ \/ SubSeq(low, i + 4, i + 5) = <<"m", "n">>
           \/ /\ low[i + 4] \in {"(", "-", "_"}
              /\ i + 6 <= Len(low)
              /\ SubSeq(low, i + 5, i + 6) = <<"m", "n">>

\* The strings nh[-_ ]?3[-_ ]?n matches.
NhForms ==
    LET sep == {<<>>, <<"-">>, <<"_">>, <<" ">>}
    IN  {<<"n", "h">> \o a \o <<"3">> \o b \o <<"n">> : a \in sep, b \in sep}

\* The metric identifiers recognized_metric_id returns.
IdPH == <<"p", "H">>

IdDO == <<"rong", "jie", "yang">>

IdCODMn == <<"C", "O", "D", "M", "n">>

IdCODCr == <<"C", "O", "D", "C", "r">>

IdNH3N == <<"an", "dan">>

IdTP == <<"zong", "lin">>

IdTN == <<"zong", "dan">>

IdBOD == <<"sheng", "hua", "xu", "yang", "liang">>

\* recognized_metric_id with the bare "cod" test ahead of the CODMn test.
recognized_metric_id_cod_first(metric_name) ==
    LET raw == Str(metric_name)
        low == normalize_metric_name(raw)
    IN  IF IsSubstr(<<"p", "h">>, low) THEN IdPH
        ELSE IF IsSubstr(IdDO, raw) \/ SearchWord(<<"d", "o">>, low) THEN IdDO
        ELSE IF SearchWord(<<"c", "o", "d">>, low) THEN IdCODCr
        ELSE IF \/ IsSubstr(<<"gao", "meng", "suan">>, raw)
                \/ IsSubstr(<<"c", "o", "d", "m", "n">>, low)
                \/ SearchCodMn(low)
             THEN IdCODMn
        ELSE IF \/ IsSubstr(<<"hua", "xue", "xu", "yang", "liang">>, raw)
                \/ IsSubstr(<<"c", "o", "d", "c", "r">>, low)
                \/ IsSubstr(<<"c", "o", "d", "(", "c", "r", ")">>, low)
             THEN IdCODCr
        ELSE IF IsSubstr(IdNH3N, raw) \/ \E w \in NhForms : SearchWord(w, low)
             THEN IdNH3N
        ELSE IF IsSubstr(IdTP, raw) \/ SearchWord(<<"t", "p">>, low) THEN IdTP
        ELSE IF IsSubstr(IdTN, raw) \/ SearchWord(<<"t", "n">>, low) THEN IdTN
        ELSE IF \/ IsSubstr(IdBOD, raw)
                \/ IsSubstr(<<"b", "o", "d">>, low)
                \/ SearchWord(<<"b", "o", "d">>, low)
             THEN IdBOD
        ELSE NoneStr

recognized_metric_id(metric_name) ==
    LET raw == Str(metric_name)
        low == normalize_metric_name(raw)
    IN  IF IsSubstr(<<"p", "h">>, low) THEN IdPH
        ELSE IF IsSubstr(IdDO, raw) \/ SearchWord(<<"d", "o">>, low) THEN IdDO
        ELSE IF \/ IsSubstr(<<"gao", "meng", "suan">>, raw)
                \/ IsSubstr(<<"c", "o", "d", "m", "n">>, low)
                \/ SearchCodMn(low)
             THEN IdCODMn
        ELSE IF \/ IsSubstr(<<"hua", "xue", "xu", "yang", "liang">>, raw)
                \/ IsSubstr(<<"c", "o", "d", "c", "r">>, low)
                \/ IsSubstr(<<"c", "o", "d", "(", "c", "r", ")">>, low)
             THEN IdCODCr
        ELSE IF SearchWord(<<"c", "o", "d">>, low) THEN IdCODCr
        ELSE IF IsSubstr(IdNH3N, raw) \/ \E w \in NhForms : SearchWord(w, low)
             THEN IdNH3N
        ELSE IF IsSubstr(IdTP, raw) \/ SearchWord(<<"t", "p">>, low) THEN IdTP
        ELSE IF IsSubstr(IdTN, raw) \/ SearchWord(<<"t", "n">>, low) THEN IdTN
        ELSE IF \/ IsSubstr(IdBOD, raw)
                \/ IsSubstr(<<"b", "o", "d">>, low)
                \/ SearchWord(<<"b", "o", "d">>, low)
             THEN IdBOD
        ELSE NoneStr

\* classify_metric taking the river ladder for total phosphorus whatever the
\* instance's water type is.
classify_metric_river_only(wtype, sset, metric_name, value) ==
    LET mid == recognized_metric_id(metric_name)
    IN  IF mid = NoneStr THEN EmptyStr
        ELSE IF mid = IdPH THEN classify_pH(value)
        ELSE IF mid = IdDO THEN classify_dissolved_oxygen(value)
        ELSE IF mid = IdCODMn THEN classify_permanganate_index(value)
        ELSE IF mid = IdCODCr THEN classify_codcr(value)
        ELSE IF mid = IdNH3N THEN classify_ammonia_nitrogen(value)
        ELSE IF mid = IdTP THEN classify_total_phosphorus(value)
        ELSE IF mid = IdTN THEN classify_total_nitrogen(value)
        ELSE IF mid = IdBOD THEN classify_biochemical_oxygen_demand(value)
        ELSE EmptyStr

\* classify_metric: total phosphorus goes through
\* classify_total_phosphorus_by_type with neither a station name nor an
\* explicit type; that call cannot raise, so its except branch is dead, and
\* the trailing getattr lookup is reached by no identifier.
classify_metric(wtype, sset, metric_name, value) ==
    LET mid == recognized_metric_id(metric_name)
    IN  IF mid = NoneStr THEN EmptyStr
        ELSE IF mid = IdPH THEN classify_pH(value)
        ELSE IF mid = IdDO THEN classify_dissolved_oxygen(value)
        ELSE IF mid = IdCODMn THEN classify_permanganate_index(value)
        ELSE IF mid = IdCODCr THEN classify_codcr(value)
        ELSE IF mid = IdNH3N THEN classify_ammonia_nitrogen(value)
        ELSE IF mid = IdTP
             THEN classify_total_phosphorus_by_type(wtype, sset, value, NoneStr, WtNone)
        ELSE IF mid = IdTN THEN classify_total_nitrogen(value)
        ELSE IF mid = IdBOD THEN classify_biochemical_oxygen_demand(value)
        ELSE EmptyStr

\* classify_by_header: classify_metric of a new instance of the given water
\* type, whose registry is empty.
classify_by_header(header, value, wtype) == classify_metric(wtype, {}, header, value)

\* The five-entry list metric_boundaries returns for a ladder I..V.
Ladder(b1, b2, b3, b4, b5) ==
    << <<CatI, b1>>, <<CatII, b2>>, <<CatIII, b3>>, <<CatIV, b4>>, <<CatV, b5>> >>

\* metric_boundaries (thresholds in units of 10^-6); it matches the
\* identifier with tests of its own.
metric_boundaries(metric_id, wtype) ==
    LET mid == Str(metric_id)
        low == normalize_metric_name(mid)
    IN  IF IsSubstr(<<"p", "h">>, low)
        THEN << <<<<"p", "H", "xia", "xian">>, 6000000>>,
                <<<<"p", "H", "shang", "xian">>, 9000000>> >>
        ELSE IF IsSubstr(IdDO, mid)
        THEN Ladder(7500000, 6000000, 5000000, 3000000, 2000000)
        ELSE IF \/ IsSubstr(<<"gao", "meng", "suan">>, mid)
                \/ IsSubstr(<<"c", "o", "d", "m", "n">>, low)
                \/ SearchCodMn(low)
        THEN Ladder(2000000, 4000000, 6000000, 10000000, 15000000)
        ELSE IF \/ IsSubstr(<<"hua", "xue", "xu", "yang", "liang">>, mid)
                \/ IsSubstr(<<"c", "o", "d", "c", "r">>, low)
                \/ IsSubstr(<<"c", "o", "d", "(", "c", "r", ")">>, low)
                \/ SearchWord(<<"c", "o", "d">>, low)
        THEN << <<<<"I", "/", "I", "I">>, 15000000>>,
                <<<<"I", "I", "I">>, 20000000>>,
                <<<<"I", "V">>, 30000000>>,
                <<<<"V">>, 40000000>> >>
        ELSE IF IsSubstr(IdNH3N, mid)
        THEN Ladder(150000, 500000, 1000000, 1500000, 2000000)
        ELSE IF IsSubstr(IdTP, mid) \/ IsSubstr(<<"t", "p">>, low)
        THEN IF wtype = WtLake
             THEN Ladder(15000, 25000, 50000, 100000, 200000)
             ELSE Ladder(20000, 100000, 200000, 300000, 400000)
        ELSE IF IsSubstr(IdTN, mid) \/ IsSubstr(<<"t", "n">>, low)
        THEN Ladder(200000, 500000, 1000000, 1500000, 2000000)
        ELSE IF IsSubstr(IdBOD, mid) \/ IsSubstr(<<"b", "o", "d">>, low)
        THEN Ladder(3000000, 3000000, 4000000, 6000000, 10000000)
        ELSE <<>>

-----------------------------------------------------------------------------
(* Inputs.                                                                 *)

\* The registry holds at most MaxStations names in the model.
MaxStations == 2

\* Readings lie within ProbeRadius * 10^-6 of a threshold.
ProbeRadius == 2

\* Aggregated lists have at most MaxCats entries.
MaxCats == 3

\* Station names given to the registry API: plain, mixed case, with a
\* parenthetical (half- and full-width), with a numeric prefix, padded,
\* with an unclosed parenthesis, empty.
StationNames ==
    { EmptyStr,
      <<"a">>,
      <<"A">>,
      <<"b">>,
      <<"a", "b">>,
      <<"a", "(", "b", ")">>,
      <<"(", "b", ")">>,
      <<"0", "1", "-">>,
      <<"0", "1", "-", "b">>,
      <<"a", "FO", "b", "FC">>,
      <<"a", "b", "(">>,
      <<" ", "a", " ">> }

StationArgs == StationNames \cup {NoneStr}

NameSets == {ns \in SUBSET StationArgs : Cardinality(ns) <= MaxStations}

WaterTypes == {WtRiver, WtLake, WtNone}

ExplicitTypes == {WtNone, "", WtLake, WtRiver, "other"}

\* Every threshold of the source, in units of 10^-6.
Thresholds ==
    { 6000000, 9000000,
      7500000, 5000000, 3000000, 2000000,
      4000000, 10000000, 15000000,
      20000000, 30000000, 40000000,
      150000, 500000, 1000000, 1500000,
      20000, 100000, 200000, 300000, 400000,
      15000, 25000, 50000 }

Readings ==
    {Num(b + d) : b \in Thresholds \cup {0}, d \in (0 - ProbeRadius)..ProbeRadius}
        \cup {Num(0 - 5000000), Num(15500000), Num(41000000), Num(1000000000)}
        \cup {NaN, Unparseable}

\* Readings given to classify_total_phosphorus_by_type.
PhosphorusReadings == {Num(30000), Num(150000), Unparseable}

\* Category texts given to the aggregators: the canonical six, the synonym,
\* a full-width Roman numeral form, a bare digit, the worst category written
\* with a Roman numeral character, unrecognized text, "", None.
CatTexts ==
    { CatI, CatII, CatIII, CatIV, CatV, CatWorse,
      Qualified,
      <<"R3", "lei">>,
      <<"2">>,
      <<"lie", "R5", "lei">>,
      <<"x">>,
      EmptyStr,
      NoneStr }

RECURSIVE SeqsUpTo(_, _)
SeqsUpTo(S, n) ==
    IF n = 0 THEN {<<>>}
    ELSE LET shorter == SeqsUpTo(S, n - 1)
         IN  shorter \cup {Append(q, x) : q \in shorter, x \in S}

CatLists == SeqsUpTo(CatTexts, MaxCats)

\* Column headers, built from the fragments that occur in them.
MaxFragments == 2

LabelFragments ==
    { <<"p", "H">>,
      <<"D", "O">>,
      IdDO,
      <<"gao", "meng", "suan">>,
      <<"C", "O", "D">>,
      <<"M", "n">>,
      <<"-", "M", "n">>,
      <<"(", "M", "n", ")">>,
      <<"SM", "SN">>,
      <<"C", "r">>,
      <<"FO", "C", "r", "FC">>,
      <<"hua", "xue", "xu", "yang", "liang">>,
      IdNH3N,
      <<"N", "H", "3">>,
      <<"-", "N">>,
      <<"T", "P">>,
      <<"T", "N">>,
      IdTP,
      IdTN,
      IdBOD,
      <<"B", "O", "D">>,
      <<"5">>,
      <<" ">>,
      <<"_">>,
      <<"x">>,
      <<"FN">> }

RECURSIVE Concat(_)
Concat(q) == IF q = <<>> THEN <<>> ELSE Head(q) \o Concat(Tail(q))

Labels == {Concat(q) : q \in SeqsUpTo(LabelFragments, MaxFragments)} \cup {NoneStr}

\* Category texts, every string of up to MaxTextLen of these characters.
MaxTextLen == 3

TextChars == {"I", "V", "lei", "lie", "R3", "2", "he", "ge", " ", "x"}

Texts == SeqsUpTo(TextChars, MaxTextLen) \cup {NoneStr}

\* Headers given to classify_metric: the eight identifiers, common
\* acronyms, an unrecognized header, "" and None.
MetricLabels ==
    { IdPH, IdDO, IdCODMn, IdCODCr, IdNH3N, IdTP, IdTN, IdBOD,
      <<"D", "O">>,
      <<"C", "O", "D">>,
      <<"N", "H", "3", "-", "N">>,
      <<"T", "P">>,
      <<"B", "O", "D", "5">>,
      <<"x">>,
      EmptyStr,
      NoneStr }

\* Readings given to classify_metric: they tell the ladders apart.
MetricReadings ==
    {Num(30000), Num(150000), Num(3000000), Num(7000000), Num(18000000), NaN, Unparseable}

\* Registries of the instance classify_metric is called on.
MetricRegistries == {{}, {<<"a">>}, {EmptyStr, <<"b">>}}

\* Station names given to _norm_station alone: every string of up to
\* MaxNameLen of these characters, and None.
MaxNameLen == 4

NameChars == {"a", "A", "(", ")", "FO", "FC", "NL", " ", "1", "-"}

NameTexts == SeqsUpTo(NameChars, MaxNameLen) \cup {NoneStr}

-----------------------------------------------------------------------------
(* The state machine: a classifier instance and its last call.             *)

Blank ==
    [ op |-> "init", name |-> NoneStr, fuzzy |-> TRUE, names |-> {},
      iterable |-> TRUE, value |-> Unparseable, explicit |-> WtNone,
      cats |-> <<>>, label |-> NoneStr, text |-> NoneStr, ret |-> EmptyStr,
      retb |-> FALSE, bounds |-> <<>> ]

\* __init__(water_type, lake_stations)
Init ==
    /\ water_type \in WaterTypes
    /\ \E names \in NameSets :
          lake_station_set = IF names # {} THEN set_lake_stations(names, TRUE) ELSE {}
    /\ call = Blank

SetLakeStations ==
    \E names \in NameSets, iterable \in BOOLEAN :
        /\ iterable \/ names = {}
        /\ lake_station_set' = set_lake_stations(names, iterable)
        /\ call' = [Blank EXCEPT !.op = "set_lake_stations", !.names = names,
                                 !.iterable = iterable]
        /\ UNCHANGED water_type

AddLakeStation ==
    \E name \in StationArgs :
        /\ Cardinality(add_lake_station(lake_station_set, name)) <= MaxStations
        /\ lake_station_set' = add_lake_station(lake_station_set, name)
        /\ call' = [Blank EXCEPT !.op = "add_lake_station", !.name = name]
        /\ UNCHANGED water_type

RemoveLakeStation ==
    \E name \in StationArgs :
        /\ lake_station_set' = remove_lake_station(lake_station_set, name)
        /\ call' = [Blank EXCEPT !.op = "remove_lake_station", !.name = name]
        /\ UNCHANGED water_type

\* is_lake_station remembering a name it has matched.
IsLakeStationCaching ==
    \E name \in StationArgs, fuzzy \in BOOLEAN :
        /\ call' = [Blank EXCEPT !.op = "is_lake_station", !.name = name,
                                 !.fuzzy = fuzzy,
                                 !.retb = is_lake_station(lake_station_set, name, fuzzy)]
        /\ lake_station_set' =
              IF is_lake_station(lake_station_set, name, fuzzy)
              THEN lake_station_set \cup {norm_station(name)}
              ELSE lake_station_set
        /\ UNCHANGED water_type

IsLakeStation ==
    \E name \in StationArgs, fuzzy \in BOOLEAN :
        /\ call' = [Blank EXCEPT !.op = "is_lake_station", !.name = name,
                                 !.fuzzy = fuzzy,
                                 !.retb = is_lake_station(lake_station_set, name, fuzzy)]
        /\ UNCHANGED <<water_type, lake_station_set>>

ClassifyTotalPhosphorusByType ==
    \E v \in PhosphorusReadings, name \in StationArgs, explicit \in ExplicitTypes :
        /\ call' = [Blank EXCEPT !.op = "classify_total_phosphorus_by_type",
                                 !.value = v, !.name = name, !.explicit = explicit,
                                 !.ret = classify_total_phosphorus_by_type(
                                            water_type, lake_station_set, v, name, explicit)]
        /\ UNCHANGED <<water_type, lake_station_set>>

\* The registry API of one classifier instance.
Next ==
    \/ SetLakeStations
    \/ AddLakeStation
    \/ RemoveLakeStation
    \/ IsLakeStation

Spec == Init /\ [][Next]_vars

\* Total phosphorus classified against a registry that is being edited.
NextPhosphorus ==
    \/ AddLakeStation
    \/ RemoveLakeStation
    \/ ClassifyTotalPhosphorusByType

SpecPhosphorus == Init /\ [][NextPhosphorus]_vars

-----------------------------------------------------------------------------
(* The static classifiers, each applied to one reading.                    *)

InitClassify ==
    /\ water_type = WtRiver
    /\ lake_station_set = {}
    /\ \E v \in Readings : call = [Blank EXCEPT !.op = "input", !.value = v]

Returned(op, ret) ==
    /\ call.op = "input"
    /\ call' = [call EXCEPT !.op = op, !.ret = ret]
    /\ UNCHANGED <<water_type, lake_station_set>>

ClassifyPH == Returned("classify_pH", classify_pH(call.value))

ClassifyDissolvedOxygen ==
    Returned("classify_dissolved_oxygen", classify_dissolved_oxygen(call.value))

ClassifyPermanganateIndex ==
    Returned("classify_permanganate_index", classify_permanganate_index(call.value))

ClassifyCodcr == Returned("classify_codcr", classify_codcr(call.value))

ClassifyAmmoniaNitrogen ==
    Returned("classify_ammonia_nitrogen", classify_ammonia_nitrogen(call.value))

ClassifyTotalPhosphorus ==
    Returned("classify_total_phosphorus", classify_total_phosphorus(call.value))

ClassifyTotalPhosphorusLake ==
    Returned("classify_total_phosphorus_lake", classify_total_phosphorus_lake(call.value))

ClassifyTotalNitrogen ==
    Returned("classify_total_nitrogen", classify_total_nitrogen(call.value))

ClassifyBiochemicalOxygenDemand ==
    Returned("classify_biochemical_oxygen_demand",
             classify_biochemical_oxygen_demand(call.value))

NextClassify ==
    \/ ClassifyPH
    \/ ClassifyDissolvedOxygen
    \/ ClassifyPermanganateIndex
    \/ ClassifyCodcr
    \/ ClassifyAmmoniaNitrogen
    \/ ClassifyTotalPhosphorus
    \/ ClassifyTotalPhosphorusLake
    \/ ClassifyTotalNitrogen
    \/ ClassifyBiochemicalOxygenDemand

SpecClassify == InitClassify /\ [][NextClassify]_vars

-----------------------------------------------------------------------------
(* The two aggregators, each applied to one list of category texts.        *)

InitOverall ==
    /\ water_type = WtRiver
    /\ lake_station_set = {}
    /\ \E cs \in CatLists : call = [Blank EXCEPT !.op = "input", !.cats = cs]

OverallCategory == Returned("overall_category", overall_category(call.cats))

ComputeOverallFromCategories ==
    Returned("compute_overall_from_categories",
             compute_overall_from_categories(call.cats))

NextOverall ==
    \/ OverallCategory
    \/ ComputeOverallFromCategories

SpecOverall == InitOverall /\ [][NextOverall]_vars

-----------------------------------------------------------------------------
(* The metric identifier, applied to one column header.                    *)

InitRecognize ==
    /\ water_type = WtRiver
    /\ lake_station_set = {}
    /\ \E l \in Labels : call = [Blank EXCEPT !.op = "input", !.label = l]

RecognizedMetricId ==
    Returned("recognized_metric_id", recognized_metric_id(call.label))

NextRecognize == RecognizedMetricId

SpecRecognize == InitRecognize /\ [][NextRecognize]_vars

-----------------------------------------------------------------------------
(* The two category normalizers of utils.py, each applied to one text.     *)

InitNormalize ==
    /\ water_type = WtRiver
    /\ lake_station_set = {}
    /\ \E t \in Texts : call = [Blank EXCEPT !.op = "input", !.text = t]

NormalizeCategory == Returned("normalize_category", normalize_category(call.text))

NormalizeCat == Returned("_normalize_cat", normalize_cat(call.text))

NextNormalize == NormalizeCategory \/ NormalizeCat

SpecNormalize == InitNormalize /\ [][NextNormalize]_vars

-----------------------------------------------------------------------------
(* Classification by header: one instance, one header, one reading.        *)

InitMetric ==
    /\ water_type \in WaterTypes
    /\ lake_station_set \in MetricRegistries
    /\ \E l \in MetricLabels, v \in MetricReadings, wt \in WaterTypes :
          call = [Blank EXCEPT !.op = "input", !.label = l, !.value = v,
                               !.explicit = wt]

ClassifyMetric ==
    Returned("classify_metric",
             classify_metric(water_type, lake_station_set, call.label, call.value))

ClassifyByHeader ==
    Returned("classify_by_header",
             classify_by_header(call.label, call.value, call.explicit))

\* metric_boundaries(metric_id, water_type): a class method, the water type
\* is its argument and the instance plays no part.
MetricBoundaries ==
    /\ call.op = "input"
    /\ call' = [call EXCEPT !.op = "metric_boundaries",
                            !.bounds = metric_boundaries(call.label, call.explicit)]
    /\ UNCHANGED <<water_type, lake_station_set>>

NextMetric ==
    \/ RecognizedMetricId
    \/ ClassifyMetric
    \/ ClassifyByHeader
    \/ MetricBoundaries
    \/ NextClassify

SpecMetric == InitMetric /\ [][NextMetric]_vars

-----------------------------------------------------------------------------
(* The station-name normalizer, applied to one name.                       *)

InitStation ==
    /\ water_type = WtRiver
    /\ lake_station_set = {}
    /\ \E x \in NameTexts : call = [Blank EXCEPT !.op = "input", !.name = x]

NormStation == Returned("_norm_station", norm_station(call.name))

NextStation == NormStation

SpecStation == InitStation /\ [][NextStation]_vars

-----------------------------------------------------------------------------
(* One instance whose registry is edited while the queries run.            *)

\* The arguments of the next query: a header, a reading, a water type and a
\* list of category texts.
QueryArguments ==
    { [Blank EXCEPT !.op = "input", !.label = l, !.value = v,
                    !.explicit = WtLake, !.cats = <<CatII, CatIV>>] :
        l \in {IdTP, <<"x">>}, v \in {Num(30000), Unparseable} }

\* A caller picks the arguments of a query; the query itself is one of the
\* actions enabled on them.
ChooseArguments ==
    /\ call.op # "input"
    /\ call' \in QueryArguments
    /\ UNCHANGED <<water_type, lake_station_set>>

Query ==
    \/ RecognizedMetricId
    \/ ClassifyMetric
    \/ MetricBoundaries
    \/ OverallCategory
    \/ NextClassify

\* set_lake_stations is left to Spec: Init and add/remove reach every
\* registry it can build.
NextFrame ==
    \/ AddLakeStation
    \/ RemoveLakeStation
    \/ IsLakeStation
    \/ ClassifyTotalPhosphorusByType
    \/ ChooseArguments
    \/ Query

SpecFrame == Init /\ [][NextFrame]_vars

-----------------------------------------------------------------------------
(* The published ladders of the specification, section 4.3: the bounds of  *)
(* I, II, III, IV, V in units of 10^-6, and the sense of the comparison.   *)

Categories == <<CatI, CatII, CatIII, CatIV, CatV, CatWorse>>

PublishedLadder(op) ==
    CASE op = "classify_dissolved_oxygen" ->
            [sense |-> "ge", bounds |-> <<7500000, 6000000, 5000000, 3000000, 2000000>>]
      [] op = "classify_permanganate_index" ->
            [sense |-> "le", bounds |-> <<2000000, 4000000, 6000000, 10000000, 15000000>>]
      [] op = "classify_ammonia_nitrogen" ->
            [sense |-> "le", bounds |-> <<150000, 500000, 1000000, 1500000, 2000000>>]
      [] op = "classify_total_phosphorus" ->
            [sense |-> "le", bounds |-> <<20000, 100000, 200000, 300000, 400000>>]
      [] op = "classify_total_phosphorus_lake" ->
            [sense |-> "le", bounds |-> <<15000, 25000, 50000, 100000, 200000>>]
      [] op = "classify_total_nitrogen" ->
            [sense |-> "le", bounds |-> <<200000, 500000, 1000000, 1500000, 2000000>>]
      [] op = "classify_biochemical_oxygen_demand" ->
            [sense |-> "le", bounds |-> <<3000000, 3000000, 4000000, 6000000, 10000000>>]

LadderOps ==
    { "classify_dissolved_oxygen", "classify_permanganate_index",
      "classify_ammonia_nitrogen", "classify_total_phosphorus",
      "classify_total_phosphorus_lake", "classify_total_nitrogen",
      "classify_biochemical_oxygen_demand" }

\* The bounds of the ladder that reading v satisfies (NaN satisfies none).
Satisfied(ladder, v) ==
    {i \in 1..5 :
        /\ v.kind = "num"
        /\ IF ladder.sense = "ge" THEN v.n >= ladder.bounds[i]
                                  ELSE v.n <= ladder.bounds[i]}

\* The first category whose bound v satisfies, the worst category when none.
FirstCategory(ladder, v) ==
    LET sat == Satisfied(ladder, v)
    IN  IF sat = {} THEN CatWorse
        ELSE Categories[CHOOSE i \in sat : \A j \in sat : i <= j]

\* The position of a category in the fixed order, 1 (best) to 6 (worst).
Rank(c) == CHOOSE i \in 1..6 : Categories[i] = c

IsNumeric(v) == v.kind # "text"

-----------------------------------------------------------------------------
(* Claims.                                                                 *)

\* C1: classify_total_phosphorus_by_type picks the ladder by strict
\* precedence: a given explicit type alone decides (lake ladder iff it is the
\* lake literal); otherwise a station name that is a member of the registry
\* selects the lake ladder; otherwise the instance default decides.
C1_Precedence ==
    call.op = "classify_total_phosphorus_by_type" =>
        LET given == call.explicit \notin {WtNone, ""}
            lake  == IF given THEN call.explicit = WtLake
                     ELSE IF is_lake_station(lake_station_set, call.name, TRUE) THEN TRUE
                     ELSE water_type = WtLake
        IN  call.ret = IF Raises(call.value) THEN EmptyStr
                       ELSE IF lake
                            THEN FirstCategory(PublishedLadder("classify_total_phosphorus_lake"),
                                               call.value)
                            ELSE FirstCategory(PublishedLadder("classify_total_phosphorus"),
                                               call.value)

\* C1 witness: 0.03 for a registered lake station with the river type given
\* explicitly is classified on the river ladder (II, where the lake ladder
\* gives III).
C1_Witness ==
    /\ call.op = "classify_total_phosphorus_by_type"
    /\ call.value = Num(30000)
    /\ call.explicit = WtRiver
    /\ Truthy(call.name)
    /\ norm_station(call.name) \in lake_station_set
    /\ call.ret = CatII

\* C2: for every metric other than pH and CODCr and every numeric reading
\* the classifier returns the first category of the published ladder whose
\* bound the reading satisfies, and the worst category when it satisfies
\* none; a reading at a bound gets the better category and one just past it
\* a worse one.
C2_FirstSatisfiedBound ==
    (call.op \in LadderOps /\ IsNumeric(call.value)) =>
        LET ladder == PublishedLadder(call.op)
            past   == IF ladder.sense = "ge" THEN 0 - 1 ELSE 1
        IN  /\ call.ret = FirstCategory(ladder, call.value)
            /\ \A i \in 1..5 :
                  /\ (call.value = Num(ladder.bounds[i])) =>
                        Rank(call.ret) <= i
                  /\ (call.value = Num(ladder.bounds[i] + past)) =>
                        Rank(call.ret) > i

\* C2 witness: ammonia nitrogen 0.150001 is II.
C2_Witness ==
    /\ call.op = "classify_ammonia_nitrogen"
    /\ call.value = Num(150001)
    /\ call.ret = CatII

\* C3 as stated: for every numeric v, classify_codcr gives I for v <= 15,
\* III for 15 < v <= 20, IV for 20 < v <= 30, V for 30 < v <= 40, the worst
\* category for v > 40, and never II.
C3_Original ==
    (call.op = "classify_codcr" /\ call.value.kind = "num") =>
        LET n == call.value.n
        IN  /\ call.ret = IF n <= 15000000 THEN CatI
                          ELSE IF n <= 20000000 THEN CatIII
                          ELSE IF n <= 30000000 THEN CatIV
                          ELSE IF n <= 40000000 THEN CatV
                          ELSE CatWorse
            /\ call.ret # CatII

\* C3 amended: the gapped ladder holds for every numeric v >= 0; a negative
\* v gives the empty string; II is never returned.
C3_GappedLadder ==
    (call.op = "classify_codcr" /\ IsNumeric(call.value)) =>
        /\ call.ret # CatII
        /\ call.value.kind = "num" =>
              LET n == call.value.n
              IN  call.ret = IF n < 0 THEN EmptyStr
                             ELSE IF n <= 15000000 THEN CatI
                             ELSE IF n <= 20000000 THEN CatIII
                             ELSE IF n <= 30000000 THEN CatIV
                             ELSE IF n <= 40000000 THEN CatV
                             ELSE CatWorse

\* C3 witness: 15.5 is III.
C3_Witness ==
    /\ call.op = "classify_codcr"
    /\ call.value = Num(15500000)
    /\ call.ret = CatIII

\* C4: classify_pH returns I exactly when 6.0 <= v <= 9.0, both ends
\* included, and the worst category for every other numeric v; never II..V.
C4_TwoSided ==
    (call.op = "classify_pH" /\ IsNumeric(call.value)) =>
        LET inRange == /\ call.value.kind = "num"
                       /\ call.value.n >= 6000000
                       /\ call.value.n <= 9000000
        IN  /\ call.ret = IF inRange THEN CatI ELSE CatWorse
            /\ call.ret \notin {CatII, CatIII, CatIV, CatV}

\* C4 witness: pH exactly 9.0 is I.
C4_Witness ==
    /\ call.op = "classify_pH"
    /\ call.value = Num(9000000)
    /\ call.ret = CatI

\* The six canonical categories, and the texts every aggregator input is
\* drawn from that no reading of any normalizer recognizes.
Canonical == {CatI, CatII, CatIII, CatIV, CatV, CatWorse}

Unrecognized == {<<"x">>, EmptyStr, NoneStr}

\* The canonical category of an accepted representation (specification,
\* section 4.5): a canonical category is itself, the synonym "qualified" is
\* I, a full-width Roman numeral or a bare digit is the category it writes.
CanonicalOf(t) ==
    CASE t \in Canonical -> t
      [] t = Qualified -> CatI
      [] t = <<"R3", "lei">> -> CatIII
      [] t = <<"2">> -> CatII
      [] t = <<"lie", "R5", "lei">> -> CatWorse

Accepted == Canonical \cup {Qualified, <<"R3", "lei">>, <<"2">>, <<"lie", "R5", "lei">>}

AggregatorOps == {"overall_category", "compute_overall_from_categories"}

Entries(cats) == {cats[i] : i \in 1..Len(cats)}

\* c is the worst of the categories the texts in ts stand for.
IsWorstOf(c, ts) ==
    /\ \E t \in ts : CanonicalOf(t) = c
    /\ \A t \in ts : Rank(CanonicalOf(t)) <= Rank(c)

\* C5: an empty collection gives the "no data" sentinel; a non-empty one
\* gives the worst recognized category, whatever the order of the entries,
\* and unrecognized entries do not change it.
C5_WorstRecognized ==
    call.op \in AggregatorOps =>
        LET es   == Entries(call.cats)
            good == es \cap (Canonical \cup {Qualified})
        IN  /\ call.cats = <<>> => call.ret = NoData
            /\ (es \subseteq (Canonical \cup {Qualified} \cup Unrecognized) /\ good # {}) =>
                  IsWorstOf(call.ret, good)

\* C5 witness: [I, worse-than-V, III] gives worse-than-V.
C5_Witness ==
    /\ call.op = "overall_category"
    /\ call.cats = <<CatI, CatWorse, CatIII>>
    /\ call.ret = CatWorse

\* C6: every entry is normalized before it is ordered, so entries in any
\* accepted representation rank like their canonical category.
C6_NormalizedBeforeOrdering ==
    (/\ call.op \in AggregatorOps
     /\ call.cats # <<>>
     /\ Entries(call.cats) \subseteq Accepted) =>
        IsWorstOf(call.ret, Entries(call.cats))

\* C7 as stated: the result is one of the six canonical categories or the
\* "no data" sentinel, never any other value.
C7_Original ==
    call.op \in AggregatorOps => call.ret \in Canonical \cup {NoData}

\* C7 amended: the result is one of the six canonical categories, the
\* "no data" sentinel (exactly for the empty collection) or the empty string
\* (only for a non-empty collection without a canonical category or synonym,
\* and always when every entry is unrecognized).
C7_ResultRange ==
    call.op \in AggregatorOps =>
        LET es == Entries(call.cats)
        IN  /\ call.ret \in Canonical \cup {NoData, EmptyStr}
            /\ call.ret = NoData <=> call.cats = <<>>
            /\ call.ret = EmptyStr =>
                  (call.cats # <<>> /\ es \cap (Canonical \cup {Qualified}) = {})
            /\ (call.cats # <<>> /\ es \subseteq Unrecognized) => call.ret = EmptyStr

\* C7 witness: a non-empty collection of unrecognized entries gives "".
C7_Witness ==
    /\ call.op \in AggregatorOps
    /\ call.cats = <<(<<"x">>), EmptyStr>>
    /\ call.ret = EmptyStr

\* C8 as stated: is_member is true when the normalized name is in the
\* registry; otherwise, with fuzzy, true iff the normalized name is a
\* substring of some registered name or some registered name is a substring
\* of it; otherwise false.
C8_Original ==
    call.op = "is_lake_station" =>
        LET n == norm_station(call.name)
        IN  call.retb =
                IF n \in lake_station_set THEN TRUE
                ELSE IF call.fuzzy
                     THEN \E s \in lake_station_set : IsSubstr(n, s) \/ IsSubstr(s, n)
                     ELSE FALSE

\* C8 amended: an empty name is no member; for a non-empty name is_member is
\* true when the normalized name is in the registry; otherwise, with fuzzy,
\* true iff the normalized name is a substring of some non-empty registered
\* name or some non-empty registered name is a substring of it; otherwise
\* false.
C8_Membership ==
    call.op = "is_lake_station" =>
        LET n == norm_station(call.name)
        IN  call.retb =
                IF call.name \in {NoneStr, EmptyStr} THEN FALSE
                ELSE IF n \in lake_station_set THEN TRUE
                ELSE IF call.fuzzy
                     THEN \E s \in lake_station_set \ {EmptyStr} :
                             IsSubstr(n, s) \/ IsSubstr(s, n)
                     ELSE FALSE

\* C8 witness: a name that is no exact member and a fuzzy one, its
\* normalized form properly containing a registered name.
C8_Witness ==
    /\ call.op = "is_lake_station"
    /\ call.fuzzy
    /\ norm_station(call.name) \notin lake_station_set
    /\ \E s \in lake_station_set :
          s # EmptyStr /\ IsSubstr(s, norm_station(call.name))
    /\ call.retb

\* The results of normalize_station_name.
NormalizedNames == {norm_station(x) : x \in StationArgs}

\* C9: the registry holds what a reference model computes: set replaces the
\* contents by the normalized images of the given names, add inserts the
\* normalized name, remove deletes it (a no-op when absent); every stored
\* element is a normalization result, and right after remove(x) the exact
\* test of x is false.
C9_Step ==
    /\ call'.op = "set_lake_stations" =>
          lake_station_set' =
              IF call'.iterable
              THEN {norm_station(x) : x \in call'.names \ {NoneStr}}
              ELSE {}
    /\ call'.op = "add_lake_station" =>
          lake_station_set' = lake_station_set \cup {norm_station(call'.name)}
    /\ call'.op = "remove_lake_station" =>
          LET n == norm_station(call'.name)
          IN  /\ lake_station_set' = lake_station_set \ {n}
              /\ n \notin lake_station_set => lake_station_set' = lake_station_set
              /\ ~is_lake_station(lake_station_set', call'.name, FALSE)
    /\ lake_station_set' \subseteq NormalizedNames

C9_ReferenceModel == [][C9_Step]_vars

\* C9 witness: add has stored the normalized form of a name that is not
\* normalized, beside another element.
C9_Witness ==
    /\ call.op = "add_lake_station"
    /\ norm_station(call.name) # call.name
    /\ norm_station(call.name) \in lake_station_set
    /\ call.name \notin lake_station_set
    /\ Cardinality(lake_station_set) = 2

\* C10: is_member is false whenever the registry is empty or the station
\* name is empty, with or without fuzzy matching.
C10_EmptyIsFalse ==
    (/\ call.op = "is_lake_station"
     /\ (lake_station_set = {} \/ call.name = EmptyStr)) => ~call.retb

\* C10 witness: the empty name asked of a registry that holds the empty
\* string and another name.
C10_Witness ==
    /\ call.op = "is_lake_station"
    /\ call.name = EmptyStr
    /\ EmptyStr \in lake_station_set
    /\ Cardinality(lake_station_set) = 2
    /\ ~call.retb

-----------------------------------------------------------------------------
(* C11.  Metric identification by priority.                                *)

\* The priority order of section 4.2.
Priority == <<IdPH, IdDO, IdCODMn, IdCODCr, IdNH3N, IdTP, IdTN, IdBOD>>

\* The pattern of each metric as section 4.2 words it; the acronyms are
\* sought in the normalized label and "standalone" is a whole word.
PublishedPattern(id, label) ==
    LET raw == Str(label)
        low == normalize_metric_name(label)
    IN  CASE id = IdPH -> IsSubstr(<<"p", "h">>, low)
          [] id = IdDO -> IsSubstr(IdDO, raw) \/ SearchWord(<<"d", "o">>, low)
          [] id = IdCODMn ->
                \/ IsSubstr(<<"gao", "meng", "suan">>, raw)
                \/ IsSubstr(<<"c", "o", "d", "m", "n">>, low)
                \/ SearchCodMn(low)
          [] id = IdCODCr ->
                \/ IsSubstr(<<"hua", "xue", "xu", "yang", "liang">>, raw)
                \/ IsSubstr(<<"c", "o", "d", "c", "r">>, low)
                \/ IsSubstr(<<"c", "o", "d", "(", "c", "r", ")">>, low)
                \/ SearchWord(<<"c", "o", "d">>, low)
          [] id = IdNH3N ->
                IsSubstr(IdNH3N, raw) \/ \E w \in NhForms : SearchWord(w, low)
          [] id = IdTP -> IsSubstr(IdTP, raw) \/ SearchWord(<<"t", "p">>, low)
          [] id = IdTN -> IsSubstr(IdTN, raw) \/ SearchWord(<<"t", "n">>, low)
          [] id = IdBOD -> IsSubstr(IdBOD, raw) \/ SearchWord(<<"b", "o", "d">>, low)

\* The same patterns, except that any occurrence of "bod" is the BOD pattern.
AmendedPattern(id, label) ==
    IF id = IdBOD
    THEN \/ IsSubstr(IdBOD, Str(label))
         \/ IsSubstr(<<"b", "o", "d">>, normalize_metric_name(label))
    ELSE PublishedPattern(id, label)

FirstPublished(label) ==
    IF \E i \in 1..8 : PublishedPattern(Priority[i], label)
    THEN Priority[CHOOSE i \in 1..8 :
            /\ PublishedPattern(Priority[i], label)
            /\ \A j \in 1..(i - 1) : ~PublishedPattern(Priority[j], label)]
    ELSE NoneStr

FirstAmended(label) ==
    IF \E i \in 1..8 : AmendedPattern(Priority[i], label)
    THEN Priority[CHOOSE i \in 1..8 :
            /\ AmendedPattern(Priority[i], label)
            /\ \A j \in 1..(i - 1) : ~AmendedPattern(Priority[j], label)]
    ELSE NoneStr

\* A label that normalizes to "codmn" or contains the permanganate term.
IsPermanganateLabel(label) ==
    \/ normalize_metric_name(label) = <<"c", "o", "d", "m", "n">>
    \/ IsSubstr(<<"gao", "meng", "suan">>, Str(label))

\* C11 as published: recognized_metric_id returns the first metric of the
\* priority order whose section 4.2 pattern the label matches (BOD by a
\* standalone "bod"), None when none does, and a label that normalizes to
\* "codmn" or contains the permanganate term resolves to CODMn.
C11_Original ==
    call.op = "recognized_metric_id" =>
        /\ call.ret = FirstPublished(call.label)
        /\ IsPermanganateLabel(call.label) => call.ret = IdCODMn

\* C11: recognized_metric_id returns the first metric of the priority order
\* pH, DO, CODMn, CODCr (explicit forms, then bare "cod"), NH3-N, TP, TN, BOD
\* whose pattern the label matches, the BOD pattern being any occurrence of
\* "bod", and None when no pattern matches; a label that normalizes to
\* "codmn" or contains the permanganate term never resolves to CODCr, and
\* resolves to CODMn unless a pH or DO pattern matches it too.
C11_FirstByPriority ==
    call.op = "recognized_metric_id" =>
        /\ call.ret = FirstAmended(call.label)
        /\ IsPermanganateLabel(call.label) =>
              /\ call.ret # IdCODCr
              /\ \/ call.ret = IdCODMn
                 \/ AmendedPattern(IdPH, call.label)
                 \/ AmendedPattern(IdDO, call.label)

\* "COD-Mn": the bare "cod" of CODCr matches too and the earlier metric wins.
C11_Witness ==
    /\ call.op = "recognized_metric_id"
    /\ call.label = <<"C", "O", "D", "-", "M", "n">>
    /\ AmendedPattern(IdCODCr, call.label)
    /\ call.ret = IdCODMn

-----------------------------------------------------------------------------
(* C12, C13.  Category text normalization.                                 *)

\* The category section 4.5 assigns a text.
PublishedCategory(x) ==
    LET core == StripLei(ReplaceRoman(SelectSeq(x, LAMBDA c : ~IsSpace(c))))
    IN  IF core # <<>> /\ core[1] = "lie" THEN CatWorse
        ELSE IF Digit2Roman(core) \in RomanNumerals
             THEN Digit2Roman(core) \o <<"lei">>
        ELSE IF core = Qualified THEN CatI
        ELSE EmptyStr

\* C12: category normalization maps a text to its canonical category: with
\* whitespace removed, Roman numeral characters mapped to ASCII and a
\* trailing suffix stripped, a text starting with the "worse" character gives
\* the worse-than-V category, a digit 1-5 or one of I..V gives that category,
\* the synonym "qualified" gives category I, and every other text gives "".
C12_CanonicalCategory ==
    (call.op = "normalize_category" /\ call.text # NoneStr)
        => call.ret = PublishedCategory(call.text)

\* C13: category normalization is idempotent: normalizing a result of
\* normalize_category (or of _normalize_cat) returns it unchanged.
C13_Idempotent ==
    /\ call.op = "normalize_category" => normalize_category(call.ret) = call.ret
    /\ call.op = "_normalize_cat" => normalize_cat(call.ret) = call.ret

\* A Roman numeral character with the suffix: the result differs from the
\* input and is a fixed point.
C13_Witness ==
    /\ call.op = "normalize_category"
    /\ call.text = <<"R3", "lei">>
    /\ call.ret = CatIII
    /\ normalize_category(call.ret) = CatIII

-----------------------------------------------------------------------------
(* C14.  Failure semantics of the classifiers.                             *)

PerMetricOps ==
    { "classify_pH", "classify_dissolved_oxygen", "classify_permanganate_index",
      "classify_codcr", "classify_ammonia_nitrogen", "classify_total_phosphorus",
      "classify_total_phosphorus_lake", "classify_total_nitrogen",
      "classify_biochemical_oxygen_demand" }

ByHeaderOps == {"classify_metric", "classify_by_header"}

\* No pattern of section 4.2 matches the label.
UnrecognizedLabel(label) == \A i \in 1..8 : ~AmendedPattern(Priority[i], label)

\* C14: every per-metric classifier and classify_metric return "" for a
\* value float() cannot parse; for a label no pattern matches,
\* recognized_metric_id returns None and classify_metric returns "".
C14_FailureSemantics ==
    /\ (call.op \in PerMetricOps \cup ByHeaderOps /\ call.value = Unparseable)
          => call.ret = EmptyStr
    /\ (call.op = "recognized_metric_id" /\ UnrecognizedLabel(call.label))
          => call.ret = NoneStr
    /\ (call.op \in ByHeaderOps /\ UnrecognizedLabel(call.label))
          => call.ret = EmptyStr

\* classify_metric reached the total nitrogen ladder with an unparseable
\* value.
C14_Witness ==
    /\ call.op = "classify_metric"
    /\ call.label = IdTN
    /\ call.value = Unparseable
    /\ call.ret = EmptyStr

-----------------------------------------------------------------------------
(* C15.  The boundary lists mirror the ladders.                            *)

CanonicalIds == {IdPH, IdDO, IdCODMn, IdCODCr, IdNH3N, IdTP, IdTN, IdBOD}

\* The classifier of a canonical identifier under a water type.
DedicatedClassifier(id, wtype, v) ==
    CASE id = IdPH -> classify_pH(v)
      [] id = IdDO -> classify_dissolved_oxygen(v)
      [] id = IdCODMn -> classify_permanganate_index(v)
      [] id = IdCODCr -> classify_codcr(v)
      [] id = IdNH3N -> classify_ammonia_nitrogen(v)
      [] id = IdTP -> IF wtype = WtLake THEN classify_total_phosphorus_lake(v)
                      ELSE classify_total_phosphorus(v)
      [] id = IdTN -> classify_total_nitrogen(v)
      [] id = IdBOD -> classify_biochemical_oxygen_demand(v)

\* The thresholds at which that classifier changes category.
ChangePoints(id, wtype) ==
    {b \in Thresholds :
        DedicatedClassifier(id, wtype, Num(b - 1)) # DedicatedClassifier(id, wtype, Num(b + 1))}

BoundsOf(list) == {list[i][2] : i \in DOMAIN list}

\* The labels are category names, in the order of the categories.
CategoryLabelled(list) ==
    /\ \A i \in DOMAIN list : \E k \in 1..6 : Categories[k] = list[i][1]
    /\ \A i, j \in DOMAIN list : i < j => Rank(list[i][1]) < Rank(list[j][1])

\* C15: for each of the eight canonical identifiers and each water type,
\* metric_boundaries returns a non-empty ordered list whose thresholds are
\* exactly the bounds at which the identifier's classifier changes category
\* (the lake bounds for total phosphorus iff the water type is lake) and
\* whose labels are canonical category names, pH having the two synthetic
\* labels at 6.0 and 9.0 instead.
C15_MirrorsLadders ==
    (call.op = "metric_boundaries" /\ call.label \in CanonicalIds) =>
        /\ call.bounds # <<>>
        /\ BoundsOf(call.bounds) = ChangePoints(call.label, call.explicit)
        /\ IF call.label = IdPH
           THEN call.bounds = << <<<<"p", "H", "xia", "xian">>, 6000000>>,
                                 <<<<"p", "H", "shang", "xian">>, 9000000>> >>
           ELSE CategoryLabelled(call.bounds)

-----------------------------------------------------------------------------
(* C16.  The station-name normalizer is idempotent.                        *)

\* C16: _norm_station is total and idempotent: for any text x, with nested,
\* unbalanced or mixed-width parentheses, line breaks or numeric prefixes,
\* normalizing its result returns that result.
C16_Idempotent ==
    call.op = "_norm_station" => norm_station(call.ret) = call.ret

-----------------------------------------------------------------------------
(* C17.  Only the mutation calls change the instance.                      *)

MutationOps == {"set_lake_stations", "add_lake_station", "remove_lake_station"}

QueryOps ==
    PerMetricOps \cup
    { "is_lake_station", "classify_total_phosphorus_by_type", "classify_metric",
      "recognized_metric_id", "metric_boundaries", "overall_category" }

C17_Step ==
    /\ call'.op \in QueryOps =>
          /\ lake_station_set' = lake_station_set
          /\ water_type' = water_type
    /\ lake_station_set' # lake_station_set => call'.op \in MutationOps
    /\ water_type' = water_type

\* C17: only set, add and remove change the registry: is_lake_station, every
\* classify_* call (classify_total_phosphorus_by_type included),
\* recognized_metric_id, metric_boundaries and overall_category leave the
\* registry and the instance's water type unchanged, in any interleaving
\* with the mutation calls.
C17_Frame == [][C17_Step]_vars

\* classify_total_phosphorus_by_type has consulted a registry that add had
\* filled, found the station in it, and left the registry as it was.
C17_Witness ==
    /\ call.op = "classify_total_phosphorus_by_type"
    /\ call.explicit = WtNone
    /\ water_type = WtRiver
    /\ Cardinality(lake_station_set) = 2
    /\ is_lake_station(lake_station_set, call.name, TRUE)
    /\ call.ret = classify_total_phosphorus_lake(call.value)
    /\ call.value = Num(30000)

-----------------------------------------------------------------------------
(* C18.  Names that normalize to nothing.                                  *)

\* C18: a non-empty station name whose normalized form is "" is never
\* reported as a lake station, whatever the registry and fuzzy are:
\* is_lake_station is true only when a non-empty normalized name equals,
\* contains or is contained in a non-empty registered name.
C18_EmptyNormalizedNeverMember ==
    (call.op = "is_lake_station" /\ call.retb) =>
        LET n == norm_station(call.name)
        IN  /\ n # EmptyStr
            /\ \E s \in lake_station_set \ {EmptyStr} :
                  s = n \/ IsSubstr(s, n) \/ IsSubstr(n, s)

-----------------------------------------------------------------------------
(* C19.  Classification by header refines the dedicated classifiers.       *)

\* What the dedicated classifier of the recognized metric returns, the
\* total phosphorus ladder being that of water type wtype.
ByDedicatedClassifier(label, wtype, v) ==
    LET mid == recognized_metric_id(label)
    IN  IF mid = NoneStr THEN EmptyStr ELSE DedicatedClassifier(mid, wtype, v)

SixCategoriesOrEmpty == {Categories[k] : k \in 1..6} \cup {EmptyStr}

\* C19: classify_metric (and classify_by_header) returns exactly what the
\* dedicated classifier of recognized_metric_id(label) returns for the
\* value, hence one of the six categories or ""; for a total phosphorus
\* label the ladder is chosen by the instance's water type alone (the lake
\* ladder iff it is the lake type), whatever the registry contains.
C19_RefinesDedicated ==
    /\ call.op = "classify_metric" =>
          /\ call.ret = ByDedicatedClassifier(call.label, water_type, call.value)
          /\ call.ret \in SixCategoriesOrEmpty
    /\ call.op = "classify_by_header" =>
          /\ call.ret = ByDedicatedClassifier(call.label, call.explicit, call.value)
          /\ call.ret \in SixCategoriesOrEmpty

\* A total phosphorus header on a lake instance whose registry is not empty:
\* 0.03 is category III on the lake ladder and II on the river ladder.
C19_Witness ==
    /\ call.op = "classify_metric"
    /\ call.label = <<"T", "P">>
    /\ water_type = WtLake
    /\ lake_station_set # {}
    /\ call.value = Num(30000)
    /\ call.ret = CatIII

====
